---- MODULE Spec2Model ----
(***************************************************************************)
(* State-machine model of the rag-agent HTTP handlers:                     *)
(*   POST   /api/create-store       (store creation / ingestion run)       *)
(*   GET    /api/vector-stores      (listing)                              *)
(*   DELETE /api/vector-stores/:id  (deletion)                             *)
(*   POST   /api/query              (retrieval + answer)                   *)
(* Handlers run on one Node.js event loop: the code between two `await`s   *)
(* is one atomic step, and handlers interleave only at an `await`.         *)
(***************************************************************************)
EXTENDS Integers, Sequences, FiniteSets, TLC

\* ---------------------------------------------------------------- bounds
NumCreators == 1        \* concurrent store-creation requests
NumQueriers == 1        \* concurrent query requests
MaxFiles    == 2        \* files per creation request
MaxPages    == 1        \* pages a loader returns for one file
MaxChunks   == 101      \* chunks of the run of SpecRun
MaxSplitPages == 2      \* pages of one file in SpecSplit

\* ------------------------------------------------------ program constants
BATCH_SIZE   == 50
DefaultTopK  == 3
chunkSize    == 2000
chunkOverlap == 400

Creators == 1..NumCreators
Queriers == 1..NumQueriers
Ids      == 1..NumCreators          \* the uuids uuidv4() hands out, in order
NoId     == 0                       \* storeDir/tempDir still null; storeId absent

NoMeta == [status |-> "absent"]     \* meta.json does not exist
NoColl == [exists |-> FALSE, entries |-> <<>>]   \* no such Chroma collection
NoResp == [status |-> 0, error |-> "none"]
NoEmbeddings == [provider |-> "none", model |-> ""]   \* no embeddings client built

FileNames   == {"a.pdf", "notes.txt"}
StoreNames  == {"", "docs"}
ModelNames  == {" ", "nomic-embed-text"}
QueryTexts  == {"", "what?"}
TopKs       == {1, DefaultTopK}
ChunkCounts == {0, BATCH_SIZE + 1}
PageLens    == {700, chunkSize + 1}     \* characters of text on one page

Min(a, b) == IF a < b THEN a ELSE b

SeqsUpTo(S, n) == UNION {[1..m -> S] : m \in 0..n}

\* file.name.toLowerCase().endsWith(".pdf")
IsPdf(name) == name \in {"a.pdf"}

\* !s || !s.trim()
IsBlank(s) == s \in {"", " "}

VARIABLES
    rootExists,     \* chroma_data/ exists
    storeDirs,      \* ids whose chroma_data/<id>/ exists
    tempDirs,       \* ids whose chroma_data/<id>/temp/ exists
    tempFiles,      \* id -> names of the files in chroma_data/<id>/temp/
    meta,           \* id -> contents of chroma_data/<id>/meta.json, or NoMeta
    chroma,         \* id -> entries of the Chroma collection <id>, or NoColl
    nextId,         \* next uuid
    run,            \* creator -> locals and position of its POST handler
    qry             \* querier -> locals and position of its POST handler

vars   == <<rootExists, storeDirs, tempDirs, tempFiles, meta, chroma, nextId,
            run, qry>>

IdleRun == [pc |-> "idle", storeId |-> NoId, files |-> <<>>, k |-> 0,
            storeName |-> "", embeddingModel |-> "",
            allDocs |-> 0, chunks |-> 0, i |-> 0, processedChunks |-> 0,
            preflightOk |-> FALSE, resp |-> NoResp, embeddings |-> NoEmbeddings,
            docs |-> <<>>, chunkDocs |-> <<>>,
            embedCalls |-> 0, batches |-> <<>>]

IdleQry == [pc |-> "idle", storeId |-> NoId, topK |-> 0, embeddingModel |-> "",
            results |-> 0, generateCalls |-> 0, resp |-> NoResp, answer |-> "none",
            embeddings |-> NoEmbeddings, ranked |-> <<>>]

Init ==
    /\ rootExists = FALSE
    /\ storeDirs = {}
    /\ tempDirs = {}
    /\ tempFiles = [id \in Ids |-> {}]
    /\ meta = [id \in Ids |-> NoMeta]
    /\ chroma = [id \in Ids |-> NoColl]
    /\ nextId = 1
    /\ run = [p \in Creators |-> IdleRun]
    /\ qry = [q \in Queriers |-> IdleQry]

\* A StoreRecord exists for id
HasRecord(id) == meta[id] # NoMeta

\* fs.existsSync(storeDir)
StoreDirExists(id) == id \in storeDirs

\* ------------------------------------------------------------------------
\* Store creation: POST /api/create-store
\* ------------------------------------------------------------------------

\* The handler has returned: the request's inputs and loop variables are
\* gone.  What the run did (its store id, how far the batch loop got) is kept
\* for the properties.
Returned(r) ==
    [r EXCEPT !.pc = "done", !.files = <<>>, !.k = 0, !.storeName = "",
              !.embeddingModel = "", !.allDocs = 0, !.embeddings = NoEmbeddings,
              !.docs = <<>>, !.chunkDocs = <<>>]

\* A `return NextResponse.json(..., {status: 400})` inside the try block:
\* the handler ends there, the catch block does not run.
Return400(r, why) ==
    [Returned(r) EXCEPT !.resp = [status |-> 400, error |-> why]]

\* The catch block: remove tempDir if it exists; remove storeDir if it exists
\* and holds no meta.json; respond 500.
CatchRun(r, why) ==
    [Returned(r) EXCEPT !.resp = [status |-> 500, error |-> why]]

CatchTempDirsMutant(id) == {}                 \* every temp directory is removed

CatchTempDirs(id) == tempDirs \ {id}

CatchRemovesStoreDir(id) == id \in storeDirs /\ meta[id] = NoMeta

CatchStoreDirs(id) ==
    IF CatchRemovesStoreDir(id) THEN storeDirs \ {id} ELSE storeDirs

CatchTempFiles(id) == [tempFiles EXCEPT ![id] = {}]

\* The whole catch block as a step of creator p (the Chroma collection is
\* not touched by it).
Catch(p, why) ==
    LET id == run[p].storeId IN
    /\ run' = [run EXCEPT ![p] = CatchRun(@, why)]
    /\ tempDirs' = CatchTempDirs(id)
    /\ storeDirs' = CatchStoreDirs(id)
    /\ tempFiles' = CatchTempFiles(id)
    /\ UNCHANGED <<rootExists, meta, chroma, nextId, qry>>

\* Lines 31-79: formData resolved; validation; uuid; mkdir storeDir and
\* tempDir; the first iteration of the save loop up to `await arrayBuffer()`.
POST_Validate(p, files, storeName, embeddingModel) ==
    /\ run[p].pc = "idle"
    /\ \A p2 \in DOMAIN run : p2 < p => run[p2].pc # "idle"   \* p-th request to arrive
    /\ IF Len(files) = 0
       THEN /\ run' = [run EXCEPT ![p] = Return400(@, "No files provided")]
            /\ UNCHANGED <<rootExists, storeDirs, tempDirs, nextId>>
       ELSE IF IsBlank(storeName)
       THEN /\ run' = [run EXCEPT ![p] = Return400(@, "Store name is required")]
            /\ UNCHANGED <<rootExists, storeDirs, tempDirs, nextId>>
       ELSE IF IsBlank(embeddingModel)
       THEN /\ run' = [run EXCEPT ![p] = Return400(@, "Embedding model is required")]
            /\ UNCHANGED <<rootExists, storeDirs, tempDirs, nextId>>
       ELSE LET id == nextId
                r  == [run[p] EXCEPT !.storeId = id, !.files = files, !.k = 1,
                                     !.storeName = storeName,
                                     !.embeddingModel = embeddingModel]
            IN  /\ nextId' = nextId + 1
                /\ rootExists' = TRUE
                /\ storeDirs' = storeDirs \cup {id}
                /\ tempDirs' = tempDirs \cup {id}
                /\ run' = [run EXCEPT ![p] =
                             IF IsPdf(files[1])
                             THEN [r EXCEPT !.pc = "save"]
                             ELSE Return400(r, "Invalid file type")]
    /\ UNCHANGED <<tempFiles, meta, chroma, qry>>

\* Lines 79-91: arrayBuffer resolved; writeFileSync into tempDir (throws when
\* the directory is gone); then the next iteration's file-type test, or the
\* first `await loader.load()`.
POST_SaveFile(p) ==
    LET r  == run[p]
        id == r.storeId
    IN
    /\ r.pc = "save"
    /\ IF id \notin tempDirs
       THEN Catch(p, "ENOENT")
       ELSE /\ tempFiles' = [tempFiles EXCEPT ![id] = @ \cup {r.files[r.k]}]
            /\ run' = [run EXCEPT ![p] =
                         IF r.k = Len(r.files)
                         THEN [r EXCEPT !.pc = "load", !.k = 1]
                         ELSE IF IsPdf(r.files[r.k + 1])
                         THEN [r EXCEPT !.k = r.k + 1]
                         ELSE Return400([r EXCEPT !.k = r.k + 1], "Invalid file type")]
            /\ UNCHANGED <<rootExists, storeDirs, tempDirs, meta, chroma, nextId,
                           qry>>

\* Lines 89-100: one `await loader.load()` resolved or rejected (it rejects
\* at least when the file is no longer there); after the last file, the
\* zero-pages test and the call of splitDocuments.
LoadFile(p, ok, pages, docs) ==
    LET r  == run[p]
        id == r.storeId
    IN
    /\ r.pc = "load"
    /\ ok => (id \in tempDirs /\ r.files[r.k] \in tempFiles[id])
    /\ IF ~ok
       THEN Catch(p, "load failed")
       ELSE /\ run' = [run EXCEPT ![p] =
                         LET r2 == [r EXCEPT !.allDocs = r.allDocs + pages,
                                             !.docs = r.docs \o docs] IN
                         IF r.k < Len(r.files)
                         THEN [r2 EXCEPT !.k = r.k + 1]
                         ELSE IF r2.allDocs = 0
                         THEN Return400(r2, "No pages could be extracted")
                         ELSE [r2 EXCEPT !.pc = "split"]]
            /\ UNCHANGED <<rootExists, storeDirs, tempDirs, tempFiles, meta, chroma,
                           nextId, qry>>

\* The load of a file whose pages' text is not followed: only the number of
\* Documents counts.
POST_LoadFile(p, ok, pages) == LoadFile(p, ok, pages, <<>>)

\* loader.load(): one Document per page, carrying the page's text (here its
\* length), its file (the position in savedPaths) and its page number.
PageDocs(k, texts) ==
    [j \in 1..Len(texts) |-> [file |-> k, page |-> j, len |-> texts[j]]]

\* The load of a file whose pages carry the texts `texts`.
POST_LoadPages(p, ok, texts) ==
    LoadFile(p, ok, Len(texts), PageDocs(run[p].k, texts))

\* Lines 115-118: new OllamaEmbeddings({model: embeddingModel, baseUrl})
CreateEmbeddings(embeddingModel) ==
    [provider |-> "OllamaEmbeddings", model |-> embeddingModel]

\* Lines 110-123: splitDocuments resolved with n chunks; the embeddings
\* client is built and the trial call embedQuery("test") is issued.  The
\* pages are not read again, so the model drops them here.
SplitStep(p, n, chunkDocs) ==
    /\ run[p].pc = "split"
    /\ run' = [run EXCEPT ![p] = [@ EXCEPT !.pc = "preflight", !.chunks = n,
                                            !.allDocs = 0,
                                            !.chunkDocs = chunkDocs,
                                            !.embeddings =
                                                CreateEmbeddings(run[p].embeddingModel)]]
    /\ UNCHANGED <<rootExists, storeDirs, tempDirs, tempFiles, meta, chroma, nextId,
                   qry>>

\* The split of pages whose text is not followed: any number of chunks.
POST_Split(p, n) == SplitStep(p, n, <<>>)

CeilDiv(a, b) == (a + b - 1) \div b

\* RecursiveCharacterTextSplitter({chunkSize, chunkOverlap}) on one text of
\* len characters: one chunk when it fits the chunk size, else windows of
\* chunkSize characters that advance by chunkSize - chunkOverlap.
SplitText(len) ==
    IF len <= chunkSize THEN 1
    ELSE 1 + CeilDiv(len - chunkSize, chunkSize - chunkOverlap)

\* splitter.splitDocuments(allDocs): every Document is split on its own, and
\* each chunk carries the metadata of the Document it was cut from.  The
\* result is given as, for each chunk in order, the index of its Document.
RECURSIVE SplitDocuments(_, _)
SplitDocuments(docs, d) ==
    IF d > Len(docs) THEN <<>>
    ELSE [c \in 1..SplitText(docs[d].len) |-> d] \o SplitDocuments(docs, d + 1)

\* The split of the loaded pages.
POST_SplitDocuments(p) ==
    LET cd == SplitDocuments(run[p].docs, 1) IN SplitStep(p, Len(cd), cd)

\* Lines 121-138: the trial embedding call settled.  On success the Chroma
\* client is built and getOrCreateCollection is issued; on failure the inner
\* catch rethrows and the outer catch block runs.
AfterPreflightMutant(ok) == "collection"      \* the failed trial call is swallowed

AfterPreflight(ok) == IF ok THEN "collection" ELSE "catch"

POST_Preflight(p, ok) ==
    /\ run[p].pc = "preflight"
    /\ IF AfterPreflight(ok) = "catch"
       THEN Catch(p, "Cannot connect to Ollama")
       ELSE /\ run' = [run EXCEPT ![p] = [@ EXCEPT !.pc = AfterPreflight(ok),
                                                    !.preflightOk = ok,
                                                    !.docs = <<>>,
                                                    !.chunkDocs = <<>>]]
            /\ UNCHANGED <<rootExists, storeDirs, tempDirs, tempFiles, meta, chroma,
                           nextId, qry>>

LoopDoneMutant(i, n) == i > 0 \/ ~(i < n)     \* the loop is left after one batch

\* for (let i = 0; i < chunks.length; i += BATCH_SIZE): the loop is over
LoopDone(i, n) == ~(i < n)

BatchLenMutant(i, n) == n - i                 \* the slice is not cut at BATCH_SIZE

\* chunks.slice(i, Math.min(i + BATCH_SIZE, chunks.length)).length
BatchLen(i, n) == Min(i + BATCH_SIZE, n) - i

\* the index within the batch is used without the running offset
ChunkIdsMutant(storeId, processedChunks, batchLen) ==
    [idx \in 1..batchLen |-> <<storeId, idx - 1>>]

\* batch.map((_, idx) => `${storeId}-${processedChunks + idx}`)
ChunkIds(storeId, processedChunks, batchLen) ==
    [idx \in 1..batchLen |-> <<storeId, processedChunks + (idx - 1)>>]

\* The (id, document, embedding) triples of one collection.add call; a
\* chunk's text is identified by its 1-based position in `chunks`, its vector
\* by the embeddings client that computed it.
BatchEntries(storeId, processedChunks, i, n, embeddings) ==
    LET ids == ChunkIds(storeId, processedChunks, BatchLen(i, n))
    IN  [idx \in 1..BatchLen(i, n) |->
            [id |-> ids[idx], document |-> i + idx, embedding |-> embeddings]]

MetaDataMutant(r) ==                          \* chunkCount taken from the counter
    [id |-> r.storeId, name |-> r.storeName, embeddingModel |-> r.embeddingModel,
     fileCount |-> Len(r.files), chunkCount |-> r.processedChunks, status |-> "ready"]

\* Lines 179-187
MetaData(r) ==
    [id |-> r.storeId, name |-> r.storeName, embeddingModel |-> r.embeddingModel,
     fileCount |-> Len(r.files), chunkCount |-> r.chunks, status |-> "ready"]

\* Lines 178-202 run in the step that leaves the batch loop: writeFileSync of
\* meta.json (throws when storeDir is gone, and then the catch block runs),
\* rmSync of tempDir, the 200 response.
Finish(p, r) ==
    LET id == r.storeId IN
    IF StoreDirExists(id)
    THEN /\ meta' = [meta EXCEPT ![id] = MetaData(r)]
         /\ tempDirs' = tempDirs \ {id}
         /\ tempFiles' = [tempFiles EXCEPT ![id] = {}]
         /\ run' = [run EXCEPT ![p] = [Returned(r) EXCEPT
                                       !.resp = [status |-> 200, error |-> "none"]]]
         /\ UNCHANGED storeDirs
    ELSE /\ run' = [run EXCEPT ![p] = CatchRun(r, "ENOENT")]
         /\ tempDirs' = CatchTempDirs(id)
         /\ storeDirs' = CatchStoreDirs(id)
         /\ tempFiles' = CatchTempFiles(id)
         /\ UNCHANGED meta

\* Lines 138-157: getOrCreateCollection settled.  On success the collection
\* exists; the loop test runs, and either the first embedDocuments call is
\* issued or (no chunks) the record is written.
POST_GetOrCreateCollection(p, ok) ==
    LET r  == run[p]
        id == r.storeId
    IN
    /\ r.pc = "collection"
    /\ IF ~ok
       THEN Catch(p, "Chroma unreachable")
       ELSE /\ chroma' = [chroma EXCEPT ![id] = [@ EXCEPT !.exists = TRUE]]
            /\ IF LoopDone(0, r.chunks)
               THEN Finish(p, r)
               ELSE /\ run' = [run EXCEPT ![p] =
                                 [r EXCEPT !.pc = "embed", !.i = 0,
                                           !.embedCalls = r.embedCalls + 1]]
                    /\ UNCHANGED <<storeDirs, tempDirs, tempFiles, meta>>
            /\ UNCHANGED <<rootExists, nextId, qry>>

\* Lines 157-167: embedDocuments of the current batch settled; on success
\* ids and metadatas are prepared and collection.add is issued.
POST_EmbedBatch(p, ok) ==
    /\ run[p].pc = "embed"
    /\ IF ~ok
       THEN Catch(p, "embedDocuments failed")
       ELSE /\ run' = [run EXCEPT ![p] = [@ EXCEPT !.pc = "add"]]
            /\ UNCHANGED <<rootExists, storeDirs, tempDirs, tempFiles, meta, chroma,
                           nextId, qry>>

\* Lines 167-202: collection.add of the current batch settled; on success
\* the entries are in the collection, processedChunks advances, and the loop
\* goes to the next batch or ends and the record is written.  The run keeps
\* a log of the calls it made: `batches` has the first chunk and the size of
\* every batch added, `embedCalls` counts the embedDocuments calls issued.
POST_AddBatch(p, ok) ==
    LET r  == run[p]
        id == r.storeId
        added == BatchEntries(id, r.processedChunks, r.i, r.chunks, r.embeddings)
        r2 == [r EXCEPT !.processedChunks = r.processedChunks + BatchLen(r.i, r.chunks),
                        !.i = r.i + BATCH_SIZE,
                        !.batches = Append(r.batches,
                                           [first |-> r.i + 1, len |-> Len(added)])]
    IN
    /\ r.pc = "add"
    /\ ok => chroma[id].exists
    /\ IF ~ok
       THEN Catch(p, "collection.add failed")
       ELSE /\ chroma' = [chroma EXCEPT ![id].entries = @ \o added]
            /\ IF LoopDone(r2.i, r2.chunks)
               THEN Finish(p, r2)
               ELSE /\ run' = [run EXCEPT ![p] =
                                 [r2 EXCEPT !.pc = "embed",
                                            !.embedCalls = r.embedCalls + 1]]
                    /\ UNCHANGED <<storeDirs, tempDirs, tempFiles, meta>>
            /\ UNCHANGED <<rootExists, nextId, qry>>

\* ------------------------------------------------------------------------
\* Listing: GET /api/vector-stores
\* ------------------------------------------------------------------------
\* The whole handler is synchronous, so its response is a function of the
\* state it runs in: every meta.json found under chroma_data/ (the order by
\* createdAt is not modelled), or nothing when chroma_data/ is missing.
GET_Response ==
    IF ~rootExists THEN {}
    ELSE {meta[id] : id \in {d \in storeDirs : meta[d] # NoMeta}}

\* The handler's only write: chroma_data/ is created when missing.
GET ==
    /\ rootExists' = TRUE
    /\ UNCHANGED <<storeDirs, tempDirs, tempFiles, meta, chroma, nextId, run, qry>>

\* ------------------------------------------------------------------------
\* Deletion: DELETE /api/vector-stores/:id
\* ------------------------------------------------------------------------
\* The whole handler is synchronous, so its response is a function of the
\* state it runs in: 404 when the store directory does not exist, else 200.
DELETE_Status(id) == IF ~StoreDirExists(id) THEN 404 ELSE 200

\* The handler's only write: rmSync of the store directory, recursively
\* (meta.json and temp/ go with it).  The Chroma collection is not touched.
DELETE(id) ==
    /\ IF DELETE_Status(id) = 404
       THEN UNCHANGED <<storeDirs, tempDirs, tempFiles, meta>>
       ELSE /\ storeDirs' = storeDirs \ {id}
            /\ tempDirs' = tempDirs \ {id}
            /\ tempFiles' = [tempFiles EXCEPT ![id] = {}]
            /\ meta' = [meta EXCEPT ![id] = NoMeta]
    /\ UNCHANGED <<rootExists, chroma, nextId, run, qry>>

\* ------------------------------------------------------------------------
\* Query: POST /api/query
\* ------------------------------------------------------------------------
Sentinel == "No relevant documents found in the vector store."

MetaExistsMutant(id) == StoreDirExists(id)    \* the directory is tested, not meta.json

\* Line 31 of the query route: fs.existsSync(metaPath)
MetaExists(id) == meta[id] # NoMeta

QueryDone(r, status, why, answer) ==
    [r EXCEPT !.pc = "done", !.resp = [status |-> status, error |-> why],
              !.answer = answer, !.topK = 0, !.embeddingModel = "",
              !.embeddings = NoEmbeddings]

\* Lines 42-44 of the query route:
\* new HuggingFaceTransformersEmbeddings({model: meta.embeddingModel})
QueryEmbeddings(embeddingModel) ==
    [provider |-> "HuggingFaceTransformersEmbeddings", model |-> embeddingModel]

\* Lines 20-54: the body is parsed; the presence test; the record lookup
\* (existsSync, then readFileSync, which throws when the file is absent);
\* the embeddings and the Chroma handle are built and similaritySearch is
\* issued.  storeId = NoId and query = "" stand for the falsy values.
QUERY_Lookup(q, storeId, query, topK) ==
    LET r == [qry[q] EXCEPT !.storeId = storeId, !.topK = topK] IN
    /\ qry[q].pc = "idle"
    /\ \A q2 \in Queriers : q2 < q => qry[q2].pc # "idle"   \* q-th request to arrive
    /\ qry' = [qry EXCEPT ![q] =
                 IF storeId = NoId \/ query = ""
                 THEN QueryDone(r, 400, "Missing storeId or query", "none")
                 ELSE IF ~MetaExists(storeId)
                 THEN QueryDone(r, 404, "Vector store not found", "none")
                 ELSE IF meta[storeId] = NoMeta
                 THEN QueryDone(r, 500, "Query failed: ENOENT", "none")
                 ELSE [r EXCEPT !.pc = "search",
                                !.embeddingModel = meta[storeId].embeddingModel,
                                !.embeddings =
                                    QueryEmbeddings(meta[storeId].embeddingModel)]]
    /\ UNCHANGED <<rootExists, storeDirs, tempDirs, tempFiles, meta, chroma, nextId,
                   run>>

EnsureCollectionMutant(c) == [exists |-> TRUE, entries |-> <<>>]   \* created anew

\* Lines 48-54 of the query route: the Chroma handle of similaritySearch gets
\* the collection by name, creating it (empty) when there is none.
EnsureCollection(c) == [c EXCEPT !.exists = TRUE]

\* vectorStore.similaritySearch(query, topK): the topK nearest entries, in
\* rank order.  The ranking is a fixed order of the collection's entries.
SimilaritySearch(entries, topK) ==
    [j \in 1..Min(topK, Len(entries)) |-> entries[j].id]

IsEmptyResultMutant(n) == n < 0               \* the empty result is not recognised

\* results.length === 0
IsEmptyResult(n) == n = 0

\* Lines 54-90: similaritySearch settled with up to topK hits of the
\* collection; with no hit the sentinel answer is returned, else the context
\* is built and ollama.generate is issued.
QUERY_Search(q, ok) ==
    LET r  == qry[q]
        c  == EnsureCollection(chroma[r.storeId])
        rs == SimilaritySearch(c.entries, r.topK)
        n  == Len(rs)
        r2 == [r EXCEPT !.results = n, !.ranked = rs]
    IN
    /\ r.pc = "search"
    /\ IF ~ok
       THEN /\ qry' = [qry EXCEPT ![q] = QueryDone(r, 500, "Query failed", "none")]
            /\ UNCHANGED chroma
       ELSE /\ chroma' = [chroma EXCEPT ![r.storeId] = c]
            /\ qry' = [qry EXCEPT ![q] =
                         IF IsEmptyResult(n)
                         THEN QueryDone(r2, 200, "none", Sentinel)
                         ELSE [r2 EXCEPT !.pc = "generate",
                                         !.generateCalls = r.generateCalls + 1]]
    /\ UNCHANGED <<rootExists, storeDirs, tempDirs, tempFiles, meta, nextId, run>>

\* Lines 90-113: ollama.generate settled.
QUERY_Generate(q, ok) ==
    /\ qry[q].pc = "generate"
    /\ qry' = [qry EXCEPT ![q] =
                 IF ok THEN QueryDone(@, 200, "none", "generated")
                       ELSE QueryDone(@, 500, "Query failed", "none")]
    /\ UNCHANGED <<rootExists, storeDirs, tempDirs, tempFiles, meta, chroma, nextId,
                   run>>

\* ------------------------------------------------------------------------
Next ==
    \/ \E p \in Creators, files \in SeqsUpTo(FileNames, MaxFiles),
          storeName \in StoreNames, embeddingModel \in ModelNames :
            POST_Validate(p, files, storeName, embeddingModel)
    \/ \E p \in Creators : POST_SaveFile(p)
    \/ \E p \in Creators, ok \in BOOLEAN, pages \in 0..MaxPages :
            POST_LoadFile(p, ok, pages)
    \/ \E p \in Creators, n \in ChunkCounts : POST_Split(p, n)
    \/ \E p \in Creators, ok \in BOOLEAN : POST_Preflight(p, ok)
    \/ \E p \in Creators, ok \in BOOLEAN : POST_GetOrCreateCollection(p, ok)
    \/ \E p \in Creators, ok \in BOOLEAN : POST_EmbedBatch(p, ok)
    \/ \E p \in Creators, ok \in BOOLEAN : POST_AddBatch(p, ok)
    \/ GET
    \/ \E id \in Ids : DELETE(id)
    \/ \E q \in Queriers, storeId \in Ids \cup {NoId}, query \in QueryTexts,
          topK \in TopKs : QUERY_Lookup(q, storeId, query, topK)
    \/ \E q \in Queriers, ok \in BOOLEAN : QUERY_Search(q, ok)
    \/ \E q \in Queriers, ok \in BOOLEAN : QUERY_Generate(q, ok)

Spec == Init /\ [][Next]_vars

\* One creation run on its own, with every chunk count up to MaxChunks.
NextRun ==
    \/ \E files \in SeqsUpTo(FileNames, MaxFiles),
          storeName \in StoreNames, embeddingModel \in ModelNames :
            POST_Validate(1, files, storeName, embeddingModel)
    \/ POST_SaveFile(1)
    \/ \E ok \in BOOLEAN, pages \in 0..MaxPages : POST_LoadFile(1, ok, pages)
    \/ \E n \in 0..MaxChunks : POST_Split(1, n)
    \/ \E ok \in BOOLEAN : POST_Preflight(1, ok)
    \/ \E ok \in BOOLEAN : POST_GetOrCreateCollection(1, ok)
    \/ \E ok \in BOOLEAN : POST_EmbedBatch(1, ok)
    \/ \E ok \in BOOLEAN : POST_AddBatch(1, ok)

SpecRun == Init /\ [][NextRun]_vars

\* One creation run up to the end of the split, the text of every page
\* followed.
NextSplit ==
    \/ \E files \in SeqsUpTo(FileNames, MaxFiles),
          storeName \in StoreNames, embeddingModel \in ModelNames :
            POST_Validate(1, files, storeName, embeddingModel)
    \/ POST_SaveFile(1)
    \/ \E ok \in BOOLEAN, texts \in SeqsUpTo(PageLens, MaxSplitPages) :
            POST_LoadPages(1, ok, texts)
    \/ POST_SplitDocuments(1)

SpecSplit == Init /\ [][NextSplit]_vars

\* Two concurrent creation requests, with the listing, deletion and one
\* query request.
PairCreators == {1, 2}
PairIds      == {1, 2}

InitPair ==
    /\ rootExists = FALSE
    /\ storeDirs = {}
    /\ tempDirs = {}
    /\ tempFiles = [id \in PairIds |-> {}]
    /\ meta = [id \in PairIds |-> NoMeta]
    /\ chroma = [id \in PairIds |-> NoColl]
    /\ nextId = 1
    /\ run = [p \in PairCreators |-> IdleRun]
    /\ qry = [q \in Queriers |-> IdleQry]

NextPair ==
    \/ \E p \in PairCreators, files \in SeqsUpTo(FileNames, MaxFiles),
          storeName \in StoreNames, embeddingModel \in ModelNames :
            POST_Validate(p, files, storeName, embeddingModel)
    \/ \E p \in PairCreators : POST_SaveFile(p)
    \/ \E p \in PairCreators, ok \in BOOLEAN, pages \in 0..MaxPages :
            POST_LoadFile(p, ok, pages)
    \/ \E p \in PairCreators, n \in ChunkCounts : POST_Split(p, n)
    \/ \E p \in PairCreators, ok \in BOOLEAN : POST_Preflight(p, ok)
    \/ \E p \in PairCreators, ok \in BOOLEAN : POST_GetOrCreateCollection(p, ok)
    \/ \E p \in PairCreators, ok \in BOOLEAN : POST_EmbedBatch(p, ok)
    \/ \E p \in PairCreators, ok \in BOOLEAN : POST_AddBatch(p, ok)
    \/ GET
    \/ \E id \in PairIds : DELETE(id)
    \/ \E storeId \in PairIds \cup {NoId}, query \in QueryTexts, topK \in TopKs :
            QUERY_Lookup(1, storeId, query, topK)
    \/ \E ok \in BOOLEAN : QUERY_Search(1, ok)
    \/ \E ok \in BOOLEAN : QUERY_Generate(1, ok)

SpecPair == InitPair /\ [][NextPair]_vars

TypeOK ==
    /\ tempDirs \subseteq storeDirs
    /\ storeDirs \subseteq Ids
    /\ \A id \in Ids : HasRecord(id) => id \in storeDirs
    /\ \A id \in Ids : tempFiles[id] # {} => id \in tempDirs
    /\ nextId \in 1..(NumCreators + 1)

\* ------------------------------------------------------------------------
\* Properties
\* ------------------------------------------------------------------------
InProgress(p) == run[p].pc \notin {"idle", "done"}

BatchFailures == {"embedDocuments failed", "collection.add failed"}

ValidationErrors == {"No files provided", "Store name is required",
                     "Embedding model is required", "Invalid file type"}

\* C1: when a run ends because the embedding call or the upsert of one of its
\* batches failed, neither a collection nor a StoreRecord exists for its id.
C1_Rollback ==
    \A p \in Creators :
        (run[p].pc = "done" /\ run[p].resp.error \in BatchFailures)
        => (~chroma[run[p].storeId].exists /\ ~HasRecord(run[p].storeId))

\* C2: every StoreRecord a reader can see (on disk, hence in the listing) has
\* status ready, belongs to a run that ended with success after its batch loop
\* covered all its chunks, and its collection holds exactly chunkCount entries.
C2_AtomicVisibility ==
    /\ \A id \in Ids :
        HasRecord(id) =>
            /\ meta[id].status = "ready"
            /\ chroma[id].exists
            /\ Len(chroma[id].entries) = meta[id].chunkCount
            /\ \E p \in Creators :
                /\ run[p].storeId = id
                /\ run[p].pc = "done"
                /\ run[p].resp.status = 200
                /\ run[p].chunks = meta[id].chunkCount
                /\ run[p].processedChunks = run[p].chunks
                /\ run[p].i >= run[p].chunks
    /\ \A m \in GET_Response :
        m.status = "ready" /\ Len(chroma[m.id].entries) = m.chunkCount

\* A store of more than one batch is visible.
C2_Witness ==
    \E id \in Ids : HasRecord(id) /\ meta[id].chunkCount > BATCH_SIZE
                    /\ meta[id] \in GET_Response

\* C3: when a creation request that made a temporary directory has returned,
\* that directory no longer exists.
C3_TempDirRemoved ==
    \A p \in Creators :
        (run[p].pc = "done" /\ run[p].storeId # NoId)
        => run[p].storeId \notin tempDirs

\* C4: a step that ends a creation request with a validation error writes
\* nothing: directories, temporary files, records and collections are as
\* before.
C4_ValidationWritesNothing ==
    [][\A p \in Creators :
          (/\ run[p].pc # "done"
           /\ run'[p].pc = "done"
           /\ run'[p].resp.status = 400
           /\ run'[p].resp.error \in ValidationErrors)
          => UNCHANGED <<rootExists, storeDirs, tempDirs, tempFiles, meta, chroma>>]_vars

\* C5: a run's collection exists, or the run is creating it or embedding or
\* adding a batch, only after its trial embedding call succeeded; and a run
\* that ended because the trial call failed has status 500 and left no
\* collection, no entry and no StoreRecord.
C5_PreflightFirst ==
    \A p \in Creators :
        LET id == run[p].storeId IN
        id # NoId =>
            /\ (chroma[id].exists \/ run[p].pc \in {"collection", "embed", "add"}
                \/ run[p].processedChunks > 0 \/ HasRecord(id))
               => run[p].preflightOk
            /\ (run[p].pc = "done" /\ run[p].resp.error = "Cannot connect to Ollama")
               => /\ run[p].resp.status = 500
                  /\ ~run[p].preflightOk
                  /\ ~chroma[id].exists
                  /\ chroma[id].entries = <<>>
                  /\ ~HasRecord(id)

\* A run has ended on a failed trial call.
C5_Witness ==
    \E p \in Creators :
        /\ run[p].pc = "done"
        /\ run[p].storeId # NoId
        /\ run[p].resp.error = "Cannot connect to Ollama"

\* C6: a DELETE that answers 200 leaves neither the StoreRecord nor the
\* collection of that id.
C6_DeleteRemovesBoth ==
    [][\A id \in Ids :
          (DELETE(id) /\ DELETE_Status(id) = 200)
          => (meta'[id] = NoMeta /\ ~chroma'[id].exists)]_vars

\* C7: a query whose record lookup runs while no StoreRecord exists for its
\* store id ends right there with 404 and no answer, and a finished query
\* never changes its outcome.
C7_QueryNotFound ==
    [][\A q \in Queriers :
          /\ \A storeId \in Ids, query \in QueryTexts \ {""}, topK \in TopKs :
                (QUERY_Lookup(q, storeId, query, topK) /\ meta[storeId] = NoMeta)
                => /\ qry'[q].pc = "done"
                   /\ qry'[q].resp.status = 404
                   /\ qry'[q].answer = "none"
          /\ qry[q].pc = "done" => qry'[q] = qry[q]]_vars

\* A query got 404 for the id of a creation run that is still in progress.
C7_Witness ==
    \E q \in Queriers, p \in Creators :
        /\ qry[q].pc = "done"
        /\ qry[q].resp.status = 404
        /\ qry[q].storeId = run[p].storeId
        /\ InProgress(p)
        /\ run[p].storeId \in storeDirs

\* C8: a DELETE of an id that has no StoreRecord answers 404 and writes
\* nothing.
C8_DeleteUnknownNotFound ==
    [][\A id \in Ids :
          (DELETE(id) /\ meta[id] = NoMeta)
          => (DELETE_Status(id) = 404
              /\ UNCHANGED <<rootExists, storeDirs, tempDirs, tempFiles, meta, chroma>>)]_vars

\* C9: generation is invoked once when the search returned a hit and never
\* otherwise; a search without hits ends with the sentinel answer.
C9_GenerateIffHits ==
    \A q \in Queriers :
        /\ qry[q].generateCalls = (IF qry[q].results >= 1 THEN 1 ELSE 0)
        /\ (qry[q].pc = "done" /\ qry[q].resp.status = 200 /\ qry[q].results = 0)
           => qry[q].answer = Sentinel
        /\ qry[q].answer = Sentinel => qry[q].generateCalls = 0
        /\ qry[q].answer = "generated" => qry[q].generateCalls = 1
        /\ qry[q].pc = "generate" => qry[q].results >= 1

\* A search without hits has been answered with the sentinel.
C9_Witness ==
    \E q \in Queriers :
        /\ qry[q].pc = "done"
        /\ qry[q].answer = Sentinel
        /\ qry[q].results = 0
        /\ chroma[qry[q].storeId].exists

\* C10: the j-th entry of a run's collection has id storeId-(j-1) and holds
\* the j-th chunk; ids are pairwise distinct; a run that succeeded wrote
\* one entry per chunk.
C10_ChunkIds ==
    \A p \in Creators :
        LET id == run[p].storeId
            e  == chroma[id].entries
        IN  id # NoId =>
            /\ \A j \in 1..Len(e) : e[j].id = <<id, j - 1>> /\ e[j].document = j
            /\ \A j, k \in 1..Len(e) : e[j].id = e[k].id => j = k
            /\ Len(e) = run[p].processedChunks
            /\ (run[p].pc = "done" /\ run[p].resp.status = 200)
               => Len(e) = run[p].chunks

\* A run of three batches has succeeded.
C10_Witness ==
    \E p \in Creators :
        /\ run[p].pc = "done"
        /\ run[p].resp.status = 200
        /\ run[p].chunks > 2 * BATCH_SIZE
        /\ Len(chroma[run[p].storeId].entries) = run[p].chunks

\* C11: while a query searches a store, its embeddings client (provider and
\* model) is the one that computed every vector of the store's collection.
C11_SameEmbeddings ==
    \A q \in Queriers :
        qry[q].pc \in {"search", "generate"} =>
            \A j \in 1..Len(chroma[qry[q].storeId].entries) :
                chroma[qry[q].storeId].entries[j].embedding = qry[q].embeddings

PagesOf(docs, k) == {d \in 1..Len(docs) : docs[d].file = k}

RECURSIVE TotalText(_, _, _)
TotalText(docs, k, d) ==
    IF d > Len(docs) THEN 0
    ELSE (IF docs[d].file = k THEN docs[d].len ELSE 0) + TotalText(docs, k, d + 1)

\* C13: after the split, every source file that has pages and whose pages
\* hold fewer than chunkSize characters in total has exactly one chunk,
\* whatever the number of its pages.
C13_ShortSourceOneChunk ==
    \A p \in Creators :
        run[p].pc = "preflight" =>
            \A k \in 1..Len(run[p].files) :
                (PagesOf(run[p].docs, k) # {}
                 /\ TotalText(run[p].docs, k, 1) < chunkSize)
                => Cardinality({c \in 1..Len(run[p].chunkDocs) :
                                   run[p].docs[run[p].chunkDocs[c]].file = k}) = 1

\* The chunks covered by the first b batches of a log.
RECURSIVE Covered(_, _)
Covered(batches, b) == IF b = 0 THEN 0 ELSE Covered(batches, b - 1) + batches[b].len

\* C14: every batch holds between 1 and BATCH_SIZE chunks; batch b starts at
\* the chunk after the last chunk of batch b-1, and the collection holds the
\* chunks of the batches added, in chunk order; a run that succeeded on n
\* chunks made ceil(n / BATCH_SIZE) batches that cover all n chunks; and the
\* embedding call of a batch is issued only when every earlier batch has been
\* added.
C14_Batching ==
    \A p \in Creators :
        LET r == run[p]
            e == chroma[r.storeId].entries
            B == Len(r.batches)
        IN  r.storeId # NoId =>
            /\ \A b \in 1..B :
                  /\ r.batches[b].len \in 1..BATCH_SIZE
                  /\ r.batches[b].first = Covered(r.batches, b - 1) + 1
            /\ Len(e) = Covered(r.batches, B)
            /\ \A j \in 1..Len(e) : e[j].document = j
            /\ (r.pc = "done" /\ r.resp.status = 200)
               => (B = CeilDiv(r.chunks, BATCH_SIZE) /\ Covered(r.batches, B) = r.chunks)
            /\ r.embedCalls \in {B, B + 1}
            /\ r.pc = "embed" => r.embedCalls = B + 1
            /\ r.pc = "add" => r.embedCalls = B + 1

\* A run has made three batches, the last one not full.
C14_Witness ==
    \E p \in Creators :
        /\ run[p].pc = "done"
        /\ run[p].resp.status = 200
        /\ Len(run[p].batches) = 3
        /\ run[p].batches[3].len < BATCH_SIZE

\* The entries the last batch of run r put into its collection.
LastBatchWritten(r) ==
    LET b == r.batches[Len(r.batches)]
    IN  SubSeq(chroma[r.storeId].entries, b.first, b.first + b.len - 1)

\* What the add of the last batch of run r writes when the counter holds c.
LastBatchWith(r, c) ==
    BatchEntries(r.storeId, c, r.batches[Len(r.batches)].first - 1, r.chunks,
                 r.embeddings)

Counters == 0..MaxChunks

\* C15 as stated: whatever value the processedChunks counter holds, a batch
\* writes the same entries (ids and contents) and the run the same record.
C15_CounterUnused ==
    \A p \in Creators :
        (run[p].pc \in {"embed", "add"} /\ run[p].batches # <<>>) =>
            \A c \in Counters :
                /\ LastBatchWith(run[p], c) = LastBatchWritten(run[p])
                /\ MetaData([run[p] EXCEPT !.processedChunks = c]) = MetaData(run[p])

\* C15 amended: whatever value the processedChunks counter holds, a batch
\* writes the same documents and vectors in the same order and the run the
\* same record; the entry ids do follow the counter: the idx-th entry of a
\* batch gets id storeId-(c + idx) under counter value c, so the ids written
\* are those of the chunk positions only under the counter's actual value.
C15_CounterOnlyInIds ==
    \A p \in Creators :
        (run[p].pc \in {"embed", "add"} /\ run[p].batches # <<>>) =>
            LET w == LastBatchWritten(run[p])
                first == run[p].batches[Len(run[p].batches)].first
            IN  \A c \in Counters :
                LET v == LastBatchWith(run[p], c) IN
                /\ Len(v) = Len(w)
                /\ \A j \in 1..Len(w) :
                      /\ v[j].document = w[j].document
                      /\ v[j].embedding = w[j].embedding
                      /\ v[j].id = <<run[p].storeId, c + (j - 1)>>
                      /\ (v[j].id = w[j].id) <=> (c = first - 1)
                /\ MetaData([run[p] EXCEPT !.processedChunks = c]) = MetaData(run[p])

\* A run has added its second batch, with the counter past the first batch.
C15_Witness ==
    \E p \in Creators :
        /\ run[p].pc = "embed"
        /\ Len(run[p].batches) = 2
        /\ run[p].processedChunks = 2 * BATCH_SIZE

\* The directory, temp directory, temp files, record and collection of id
\* are as before the step.
StoreUntouched(id) ==
    /\ (id \in storeDirs') = (id \in storeDirs)
    /\ (id \in tempDirs') = (id \in tempDirs)
    /\ tempFiles'[id] = tempFiles[id]
    /\ meta'[id] = meta[id]
    /\ chroma'[id] = chroma[id]

\* C16: under every interleaving of two creation requests with the listing,
\* deletion and a query, no two runs hold the same store id; a step of a run
\* leaves the directory, temp files, record and collection of every id but
\* its own untouched; and while a store's record exists, only DELETE of that
\* id changes its directory, record or collection.
C16_RunIsolation ==
    [][/\ \A p, p2 \in DOMAIN run :
            (p # p2 /\ run'[p].storeId # NoId) => run'[p].storeId # run'[p2].storeId
       /\ \A p \in DOMAIN run :
            run'[p] # run[p] =>
                \A id \in DOMAIN meta : id # run'[p].storeId => StoreUntouched(id)
       /\ \A id \in DOMAIN meta :
            (HasRecord(id) /\ ~DELETE(id)) => StoreUntouched(id)]_vars

\* One run's store is visible while the other run, under another id, is
\* adding a batch to its own collection.
C16_Witness ==
    \E p, p2 \in DOMAIN run :
        /\ run[p].pc = "done"
        /\ run[p].storeId # NoId
        /\ HasRecord(run[p].storeId)
        /\ run[p2].pc = "add"
        /\ run[p2].storeId # run[p].storeId
        /\ chroma[run[p2].storeId].entries = <<>>

====
